---- MODULE Spec2Model ----
(***************************************************************************)
(* A model of datamatrix/_functional/_memoize.py: the `memoize` decorator  *)
(* class, its two cache tiers (the `_cache` dict of each object and the    *)
(* pickle files of a storage folder), key derivation, lazy evaluation of   *)
(* callable arguments, `clear()` and the decorator-with-arguments          *)
(* dispatch.                                                               *)
(*                                                                         *)
(* A method of the class is an operator over a record `st` that holds the  *)
(* heap (`ws`, the memoize objects), the file system (`disk`) and the log  *)
(* of what the method did (`ev`).  A call is synchronous: the wrapped      *)
(* function may call the wrapper again before the outer call writes back,  *)
(* so `_call_without_arguments` and the function bodies are mutually       *)
(* recursive operators and every action is one complete top-level          *)
(* operation.                                                              *)
(***************************************************************************)
EXTENDS Integers, Sequences, FiniteSets, TLC

VARIABLES wrappers, disk, last, since, ncalls, race

vars == <<wrappers, disk, last, since, ncalls, race>>

(***************************************************************************)
(* Bounds of the model.                                                    *)
(***************************************************************************)
\* Number of top-level calls of memoized functions in one behaviour.
MaxCalls == 2

(***************************************************************************)
(* Python values.  Every value is a record of one shape, so that values    *)
(* of different types compare unequal instead of failing to compare.       *)
(***************************************************************************)
IntV(n) == [t |-> "int", n |-> n, s |-> ""]

StrV(s) == [t |-> "str", n |-> 0, s |-> s]

\* A module-level function object, identified by its qualified name.
FnV(name) == [t |-> "fn", n |-> 0, s |-> name]

\* The function object that `lambda: n` makes.
LambdaV(n) == [t |-> "lambda", n |-> n, s |-> "<lambda>"]

NoneV == [t |-> "none", n |-> 0, s |-> ""]

\* Python's None where the model stores a string (`fnc=None`, `key=None`).
None == "None"

\* The builtin callable().
callable(v) == v.t \in {"fn", "lambda"}

\* The attributes hasattr() finds on a value: a function object has
\* `__name__`, `__qualname__`, `__call__`, ...; no object has `__name`.
Attrs(v) == IF callable(v) THEN {"__name__", "__qualname__", "__call__"} ELSE {}

hasattr(v, attr) == attr \in Attrs(v)

(***************************************************************************)
(* The callers' world: the integers and zero-argument callables passed as  *)
(* arguments, the functions that get memoized, the folders and the keys.   *)
(***************************************************************************)
ArgInts == {0, 1}

\* Zero-argument functions g() -> 0 and h() -> 1, passed as arguments.
Thunks == {"g", "h"}

ThunkValue(name) == IF name = "g" THEN IntV(0) ELSE IntV(1)

\* A zero-argument function bad() that raises ValueError.
ThunkRaises(name) == name = "bad"

ArgVals == {IntV(n) : n \in ArgInts} \cup {FnV(name) : name \in Thunks}

\* The memoized functions, all with the signature (a, b=0):
\*   add      a + b                   (the docstring's example)
\*   add_alt  a * b, defined elsewhere under the same __name__ "add"
\*   dbl      n = a + b; 0 if n == 0 else dbl(n-1) + dbl(n-1) + 1,
\*            where dbl is the memoized function itself
\*   lam      n = a + b; 0 if n == 0 else (lambda: n)
\*   quo      n = a + b; 0 if n == 0 else 1 // quo(n-1),
\*            where quo is the memoized function itself
Fncs == {"add", "add_alt", "dbl"}

\* The functions of the programs in which calls fail.
ErrFncs == {"add", "lam", "quo"}

__name__(f) == IF f = "add_alt" THEN "add" ELSE f

Folders == {".memoize", "alt"}

ExplicitKeys == {"k"}

Slots == {1, 2}

\* A call f(*args, **kwargs): kwargs in the order the caller wrote them.
Kw(k, v) == [k |-> k, v |-> v]

MkCall(args, kwargs) == [args |-> args, kwargs |-> kwargs]

\* The value passed together with a keyword, and the values of the keyword b.
PosVals == {FnV("g")}

KwVals == {IntV(1), FnV("h")}

\* f(x) and f(x, b=y)
Calls ==
    {MkCall(<<x>>, <<>>) : x \in ArgVals}
    \cup {MkCall(<<x>>, <<Kw("b", y)>>) : x \in PosVals, y \in KwVals}

\* f(x) with an integer x
PlainCalls == {MkCall(<<IntV(n)>>, <<>>) : n \in ArgInts}

\* f(x) with an integer x, and f(bad)
ErrCalls == PlainCalls \cup {MkCall(<<FnV("bad")>>, <<>>)}

\* What happens to the write of a file: nothing, open() raises OSError
\* (permissions), or the file is opened and pickle.dump raises OSError (disk
\* full) with nothing or a part of the pickle written.
Faults == {"none", "open", "dump_empty", "dump_part"}

(***************************************************************************)
(* pickle and hashlib.md5.                                                 *)
(*                                                                         *)
(* pickle.dumps writes a value as a sequence of opcodes: an integer and a  *)
(* string by their content, a function by reference (GLOBAL and its        *)
(* qualified name), a list and a dict as a mark, their items in iteration  *)
(* order and a closing opcode.  pickle.loads reads the opcodes back.       *)
(* md5 is modelled as a collision-free digest: the digest of a byte string *)
(* is the tag "md5" around it; an explicit key is a plain string.          *)
(***************************************************************************)
Op(op, n, s) == [op |-> op, n |-> n, s |-> s]

PickleValue(v) ==
    CASE v.t = "int" -> Op("INT", v.n, "")
      [] v.t = "str" -> Op("STR", 0, v.s)
      [] v.t = "fn" -> Op("GLOBAL", 0, v.s)
      [] OTHER -> Op("NONE", 0, "")

UnpickleValue(o) ==
    CASE o.op = "INT" -> IntV(o.n)
      [] o.op = "STR" -> StrV(o.s)
      [] o.op = "GLOBAL" -> FnV(o.s)
      [] OTHER -> NoneV

\* pickle.dumps(retval) and pickle.loads(blob) of a single value.  A lambda
\* is not found by its qualified name: dumps raises PicklingError.  A pickle
\* that does not end with STOP is truncated: loads raises.
Picklable(v) == v.t # "lambda"

PickleDumps(v) == <<PickleValue(v), Op("STOP", 0, "")>>

Loadable(blob) == blob # <<>> /\ blob[Len(blob)].op = "STOP"

LoadError(blob) == IF blob = <<>> THEN "EOFError" ELSE "UnpicklingError"

PickleLoads(blob) == UnpickleValue(blob[1])

\* What a file holds after pickle.dump has failed in the middle.
Truncated(blob, fault) == IF fault = "dump_part" THEN SubSeq(blob, 1, Len(blob) - 1) ELSE <<>>

RECURSIVE PickleItems(_)
PickleItems(vals) ==
    IF vals = <<>> THEN <<>>
    ELSE <<PickleValue(Head(vals))>> \o PickleItems(Tail(vals))

RECURSIVE PickleKwItems(_)
PickleKwItems(kwdict) ==
    IF kwdict = <<>> THEN <<>>
    ELSE <<Op("STR", 0, Head(kwdict).k), PickleValue(Head(kwdict).v)>>
         \o PickleKwItems(Tail(kwdict))

\* pickle.dumps([name, args, kwdict])
PickleDumpsCall(name, args, kwdict) ==
    <<Op("MARK", 0, ""), Op("STR", 0, name)>>
    \o <<Op("MARK", 0, "")>> \o PickleItems(args) \o <<Op("LIST", 0, "")>>
    \o <<Op("MARK", 0, "")>> \o PickleKwItems(kwdict) \o <<Op("DICT", 0, "")>>
    \o <<Op("LIST", 0, ""), Op("STOP", 0, "")>>

\* hashlib.md5(bytes).hexdigest()
Md5Hexdigest(bytes) == [explicit |-> FALSE, s |-> "md5", bytes |-> bytes]

\* A key given by the caller (`key='persistent-add'`).
ExplicitKey(s) == [explicit |-> TRUE, s |-> s, bytes |-> <<>>]

NoKey == [explicit |-> FALSE, s |-> "", bytes |-> <<>>]

(***************************************************************************)
(* memoize._memkey                                                         *)
(***************************************************************************)
\* The list comprehension of _memkey: the positional arguments with every
\* callable replaced.
RECURSIVE MemkeyArgs(_)
MemkeyArgs(args) ==
    IF args = <<>> THEN <<>>
    ELSE LET arg == Head(args)
         IN <<IF callable(arg)
                THEN (IF hasattr(arg, "__name") THEN StrV(arg.s) ELSE StrV("__nameless__"))
                ELSE arg>>
            \o MemkeyArgs(Tail(args))

\* What _memkey hands to pickle.dumps: the positional list and the values
\* of kwdict.
RECURSIVE KwValues(_)
KwValues(kwdict) ==
    IF kwdict = <<>> THEN <<>> ELSE <<Head(kwdict).v>> \o KwValues(Tail(kwdict))

Pickled(args, kwdict) == MemkeyArgs(args) \o KwValues(kwdict)

\* _memkey with the function itself in the place of its name.
memkey_by_function(self, args, kwdict) ==
    Md5Hexdigest(PickleDumpsCall(self._fnc, MemkeyArgs(args), kwdict))

_memkey(self, args, kwdict) ==
    Md5Hexdigest(PickleDumpsCall(__name__(self._fnc), MemkeyArgs(args), kwdict))

(***************************************************************************)
(* The heap, the file system and the log.                                  *)
(***************************************************************************)
\* An empty dict / an empty directory listing.
EmptyMap == [k \in {} |-> <<>>]

\* dict[key] = blob
Put(m, key, blob) == [k \in DOMAIN m \cup {key} |-> IF k = key THEN blob ELSE m[k]]

\* A slot that holds no memoize object yet.
NoObject ==
    [alive |-> FALSE, _fnc |-> None, _key |-> None, _persistent |-> FALSE,
     _lazy |-> FALSE, _debug |-> FALSE, _folder |-> ".memoize",
     _cache |-> EmptyMap, _latest_source |-> "unset"]

NoFolder == [exists |-> FALSE, files |-> EmptyMap]

\* os.path.exists(folder) and os.path.exists(os.path.join(folder, memkey))
FolderExists(st, folder) == st.disk[folder].exists

FileExists(st, folder, memkey) ==
    st.disk[folder].exists /\ memkey \in DOMAIN st.disk[folder].files

\* One thing a method did: `e` names it, `w` the object, `d` the nesting
\* depth of the call (0: the caller's own call), `c` the call, `key` the
\* cache key and `vals` the values involved.
Event(e, cx, key, vals) ==
    [e |-> e, w |-> cx.w, d |-> cx.d, c |-> cx.c, key |-> key, vals |-> vals]

Log(st, event) == [st EXCEPT !.ev = Append(@, event)]

NoCall == MkCall(<<>>, <<>>)

Cx(w, d, c) == [w |-> w, d |-> d, c |-> c]

(***************************************************************************)
(* What a call gives back to its caller.                                   *)
(***************************************************************************)
\* `return retval`
Retval(v) == [kind |-> "retval", val |-> v, key |-> NoKey, source |-> ""]

\* `return (retval, memkey, self._latest_source)`
Triple(v, memkey, source) == [kind |-> "triple", val |-> v, key |-> memkey, source |-> source]

\* An exception that propagates to the caller.
Raise(what) == [kind |-> "raise", val |-> NoneV, key |-> NoKey, source |-> what]

\* A method without return value.
ReturnsNone == [kind |-> "none", val |-> NoneV, key |-> NoKey, source |-> ""]

(***************************************************************************)
(* memoize._init_cache, memoize.__init__, memoize.clear                    *)
(***************************************************************************)
\* _init_cache without the os.mkdir: only the in-memory mapping is reset.
init_cache_memory_only(st, w) ==
    [st EXCEPT !.ws[w]._cache = EmptyMap]

_init_cache(st, w) ==
    LET self == st.ws[w]
        st1 == [st EXCEPT !.ws[w]._cache = EmptyMap]
    IN IF self._persistent /\ ~FolderExists(st1, self._folder)
         THEN Log([st1 EXCEPT !.disk[self._folder] = [exists |-> TRUE, files |-> EmptyMap]],
                  Event("mkdir", Cx(w, 0, NoCall), NoKey, <<StrV(self._folder)>>))
         ELSE st1

__init__(st, w, fnc, key, persistent, lazy, debug, folder) ==
    _init_cache(
        [st EXCEPT !.ws[w] =
            [alive |-> TRUE, _fnc |-> fnc, _key |-> key, _persistent |-> persistent,
             _lazy |-> lazy, _debug |-> debug, _folder |-> folder,
             _cache |-> EmptyMap, _latest_source |-> "unset"]],
        w)

\* clear without the test of `self._persistent`: the folder is removed if it
\* exists.
clear_any_folder(st, w) ==
    LET self == st.ws[w]
    IN _init_cache(
        IF FolderExists(st, self._folder)
          THEN Log([st EXCEPT !.disk[self._folder] = NoFolder],
                   Event("rmtree", Cx(w, 0, NoCall), NoKey, <<StrV(self._folder)>>))
          ELSE st,
        w)

clear(st, w) ==
    LET self == st.ws[w]
    IN _init_cache(
        IF self._persistent /\ FolderExists(st, self._folder)
          THEN Log([st EXCEPT !.disk[self._folder] = NoFolder],
                   Event("rmtree", Cx(w, 0, NoCall), NoKey, <<StrV(self._folder)>>))
          ELSE st,
        w)

(***************************************************************************)
(* memoize._call_with_arguments                                            *)
(***************************************************************************)
\* self.__class__(fnc, key=..., persistent=..., lazy=..., debug=..., folder=...)
\* constructs the new object in the free slot `w2`.
\* _call_with_arguments without `folder=self._folder`: the new object gets
\* the default folder.
call_with_arguments_default_folder(st, w, fnc, w2) ==
    LET self == st.ws[w]
    IN __init__(st, w2, fnc, self._key, self._persistent, self._lazy, self._debug,
                ".memoize")

_call_with_arguments(st, w, fnc, w2) ==
    LET self == st.ws[w]
    IN __init__(st, w2, fnc, self._key, self._persistent, self._lazy, self._debug,
                self._folder)

(***************************************************************************)
(* memoize._read_cache, memoize._write_cache, memoize._lazy_evaluation     *)
(***************************************************************************)
\* _read_cache without its first test: the in-memory mapping is never asked.
read_cache_without_memory(st, cx, memkey) ==
    LET self == st.ws[cx.w]
        file == st.disk[self._folder].files[memkey]
    IN IF self._persistent /\ FileExists(st, self._folder, memkey)
         THEN IF Loadable(file)
                THEN [st |-> Log([st EXCEPT !.ws[cx.w]._latest_source = "disk"],
                                 Event("read_disk", cx, memkey, <<PickleLoads(file)>>)),
                      is_cached |-> TRUE, retval |-> PickleLoads(file), raised |-> ""]
                ELSE [st |-> Log([st EXCEPT !.ws[cx.w]._latest_source = "disk"],
                                 Event("load_error", cx, memkey, <<>>)),
                      is_cached |-> FALSE, retval |-> NoneV, raised |-> LoadError(file)]
         ELSE [st |-> [st EXCEPT !.ws[cx.w]._latest_source = "function"],
               is_cached |-> FALSE, retval |-> NoneV, raised |-> ""]

\* _read_cache that keeps what it loads from a file in the in-memory mapping.
read_cache_promote(st, cx, memkey) ==
    LET self == st.ws[cx.w]
        file == st.disk[self._folder].files[memkey]
    IN IF memkey \in DOMAIN self._cache
         THEN [st |-> Log([st EXCEPT !.ws[cx.w]._latest_source = "memory"],
                          Event("read_memory", cx, memkey,
                                <<PickleLoads(self._cache[memkey])>>)),
               is_cached |-> TRUE, retval |-> PickleLoads(self._cache[memkey]),
               raised |-> ""]
         ELSE IF self._persistent /\ FileExists(st, self._folder, memkey)
           THEN IF Loadable(file)
                  THEN [st |-> Log([st EXCEPT !.ws[cx.w]._latest_source = "disk",
                                              !.ws[cx.w]._cache = Put(@, memkey, file)],
                                   Event("read_disk", cx, memkey, <<PickleLoads(file)>>)),
                        is_cached |-> TRUE, retval |-> PickleLoads(file), raised |-> ""]
                  ELSE [st |-> Log([st EXCEPT !.ws[cx.w]._latest_source = "disk"],
                                   Event("load_error", cx, memkey, <<>>)),
                        is_cached |-> FALSE, retval |-> NoneV, raised |-> LoadError(file)]
           ELSE [st |-> [st EXCEPT !.ws[cx.w]._latest_source = "function"],
                 is_cached |-> FALSE, retval |-> NoneV, raised |-> ""]

\* An unreadable file makes pickle.load raise, after `_latest_source` is set.
_read_cache(st, cx, memkey) ==
    LET self == st.ws[cx.w]
        file == st.disk[self._folder].files[memkey]
    IN IF memkey \in DOMAIN self._cache
         THEN [st |-> Log([st EXCEPT !.ws[cx.w]._latest_source = "memory"],
                          Event("read_memory", cx, memkey,
                                <<PickleLoads(self._cache[memkey])>>)),
               is_cached |-> TRUE, retval |-> PickleLoads(self._cache[memkey]),
               raised |-> ""]
         ELSE IF self._persistent /\ FileExists(st, self._folder, memkey)
           THEN IF Loadable(file)
                  THEN [st |-> Log([st EXCEPT !.ws[cx.w]._latest_source = "disk"],
                                   Event("read_disk", cx, memkey, <<PickleLoads(file)>>)),
                        is_cached |-> TRUE, retval |-> PickleLoads(file), raised |-> ""]
                  ELSE [st |-> Log([st EXCEPT !.ws[cx.w]._latest_source = "disk"],
                                   Event("load_error", cx, memkey, <<>>)),
                        is_cached |-> FALSE, retval |-> NoneV, raised |-> LoadError(file)]
           ELSE [st |-> [st EXCEPT !.ws[cx.w]._latest_source = "function"],
                 is_cached |-> FALSE, retval |-> NoneV, raised |-> ""]

\* The write of the file of `memkey`: open(cache_path, 'wb') and
\* pickle.dump(retval, fd), with what `st.fault` makes of them.
WriteFile(st, cx, memkey, retval, ret) ==
    LET self == st.ws[cx.w]
    IN IF ~FolderExists(st, self._folder)
         \* open() in a directory that does not exist
         THEN [st |-> st, ret |-> Raise("FileNotFoundError")]
         ELSE IF st.fault = "open"
           THEN [st |-> Log(st, Event("write_fail", cx, memkey, <<retval>>)),
                 ret |-> Raise("OSError")]
           ELSE IF st.fault \in {"dump_empty", "dump_part"}
             THEN [st |-> Log([st EXCEPT !.disk[self._folder].files =
                                   Put(@, memkey, Truncated(PickleDumps(retval), st.fault))],
                              Event("write_fail", cx, memkey, <<retval>>)),
                   ret |-> Raise("OSError")]
             ELSE [st |-> Log([st EXCEPT !.disk[self._folder].files =
                                   Put(@, memkey, PickleDumps(retval))],
                              Event("write_disk", cx, memkey, <<retval>>)),
                   ret |-> ret]

\* self._cache[memkey] = pickle.dumps(retval), for a value that pickles.
WriteMemory(st, cx, memkey, retval) ==
    Log([st EXCEPT !.ws[cx.w]._cache = Put(@, memkey, PickleDumps(retval))],
        Event("write_memory", cx, memkey, <<retval>>))

\* pickle.dumps(retval) raises (PicklingError, or AttributeError for a local
\* object, by the version of Python).
DumpsError(st, cx, memkey, retval) ==
    [st |-> Log(st, Event("dumps_error", cx, memkey, <<retval>>)),
     ret |-> Raise("PicklingError")]

\* The value of `return (retval, memkey, self._latest_source) if self._debug
\* else retval`.
WriteCacheReturn(st, cx, memkey, retval) ==
    IF st.ws[cx.w]._debug
      THEN Triple(retval, memkey, st.ws[cx.w]._latest_source)
      ELSE Retval(retval)

\* _write_cache without its `if self._persistent:` block: no file is written.
write_cache_memory_only(st, cx, memkey, retval) ==
    IF ~Picklable(retval) THEN DumpsError(st, cx, memkey, retval)
    ELSE [st |-> WriteMemory(st, cx, memkey, retval),
          ret |-> WriteCacheReturn(st, cx, memkey, retval)]

\* _write_cache without the `if not os.path.exists(cache_path):` test: the
\* file is written on every write-back.
write_cache_overwrite(st, cx, memkey, retval) ==
    LET self == st.ws[cx.w]
        st1 == WriteMemory(st, cx, memkey, retval)
        ret == WriteCacheReturn(st, cx, memkey, retval)
    IN IF ~Picklable(retval) THEN DumpsError(st, cx, memkey, retval)
       ELSE IF self._persistent
         THEN WriteFile(st1, cx, memkey, retval, ret)
         ELSE [st |-> st1, ret |-> ret]

\* _write_cache that writes the file before the in-memory mapping.
write_cache_disk_first(st, cx, memkey, retval) ==
    LET self == st.ws[cx.w]
        ret == WriteCacheReturn(st, cx, memkey, retval)
        wf == WriteFile(st, cx, memkey, retval, ret)
    IN IF ~Picklable(retval) THEN DumpsError(st, cx, memkey, retval)
       ELSE IF self._persistent /\ ~FileExists(st, self._folder, memkey)
         THEN IF wf.ret.kind = "raise" THEN wf
              ELSE [st |-> WriteMemory(wf.st, cx, memkey, retval), ret |-> ret]
         ELSE [st |-> WriteMemory(st, cx, memkey, retval), ret |-> ret]

\* _write_cache that opens the file before it pickles the value: a value
\* that does not pickle leaves an empty file.
write_cache_open_first(st, cx, memkey, retval) ==
    LET self == st.ws[cx.w]
        st1 == WriteMemory(st, cx, memkey, retval)
        ret == WriteCacheReturn(st, cx, memkey, retval)
        nofile == self._persistent /\ ~FileExists(st, self._folder, memkey)
    IN IF ~Picklable(retval)
         THEN IF nofile /\ FolderExists(st, self._folder)
                THEN DumpsError([st EXCEPT !.disk[self._folder].files = Put(@, memkey, <<>>)],
                                cx, memkey, retval)
                ELSE DumpsError(st, cx, memkey, retval)
         ELSE IF nofile
           THEN WriteFile(st1, cx, memkey, retval, ret)
           ELSE [st |-> st1, ret |-> ret]

\* pickle.dumps(retval) comes first: if it raises, nothing is stored.
_write_cache(st, cx, memkey, retval) ==
    LET self == st.ws[cx.w]
        st1 == WriteMemory(st, cx, memkey, retval)
        ret == WriteCacheReturn(st, cx, memkey, retval)
    IN IF ~Picklable(retval) THEN DumpsError(st, cx, memkey, retval)
       ELSE IF self._persistent /\ ~FileExists(st1, self._folder, memkey)
         THEN WriteFile(st1, cx, memkey, retval, ret)
         ELSE [st |-> st1, ret |-> ret]

\* The list comprehension over args: arg() if callable(arg) else arg.  An
\* exception of arg() ends the comprehension.
RECURSIVE LazyArgs(_,_,_)
LazyArgs(st, cx, args) ==
    IF args = <<>> THEN [st |-> st, args |-> <<>>, raised |-> ""]
    ELSE LET arg == Head(args)
             st1 == IF callable(arg) THEN Log(st, Event("thunk", cx, NoKey, <<arg>>)) ELSE st
             rest == LazyArgs(st1, cx, Tail(args))
         IN IF callable(arg) /\ ThunkRaises(arg.s)
              THEN [st |-> st1, args |-> <<>>, raised |-> "ValueError"]
              ELSE [st |-> rest.st,
                    args |-> <<IF callable(arg) THEN ThunkValue(arg.s) ELSE arg>> \o rest.args,
                    raised |-> rest.raised]

\* The dict comprehension over kwargs.items(): val() if callable(val) else val.
RECURSIVE LazyKwargs(_,_,_)
LazyKwargs(st, cx, kwargs) ==
    IF kwargs = <<>> THEN [st |-> st, kwargs |-> <<>>, raised |-> ""]
    ELSE LET val == Head(kwargs).v
             st1 == IF callable(val) THEN Log(st, Event("thunk", cx, NoKey, <<val>>)) ELSE st
             rest == LazyKwargs(st1, cx, Tail(kwargs))
         IN IF callable(val) /\ ThunkRaises(val.s)
              THEN [st |-> st1, kwargs |-> <<>>, raised |-> "ValueError"]
              ELSE [st |-> rest.st,
                    kwargs |-> <<Kw(Head(kwargs).k,
                                    IF callable(val) THEN ThunkValue(val.s) ELSE val)>>
                               \o rest.kwargs,
                    raised |-> rest.raised]

\* _lazy_evaluation that resolves the positional arguments only.
lazy_evaluation_args_only(st, cx, args, kwargs) ==
    LET a == LazyArgs(st, cx, args)
    IN [st |-> a.st, args |-> a.args, kwargs |-> kwargs, raised |-> a.raised]

_lazy_evaluation(st, cx, args, kwargs) ==
    LET a == LazyArgs(st, cx, args)
        k == LazyKwargs(a.st, cx, kwargs)
    IN IF a.raised # ""
         THEN [st |-> a.st, args |-> a.args, kwargs |-> kwargs, raised |-> a.raised]
         ELSE [st |-> k.st, args |-> a.args, kwargs |-> k.kwargs, raised |-> k.raised]

(***************************************************************************)
(* The memoized functions and memoize._call_without_arguments              *)
(***************************************************************************)
\* The value bound to parameter `name` of a function with the signature
\* (a, b=0): positional arguments first, then keywords, then the default.
KwGet(kwargs, name, default) ==
    LET hits == {i \in DOMAIN kwargs : kwargs[i].k = name}
    IN IF hits = {} THEN default ELSE kwargs[CHOOSE i \in hits : TRUE].v

Param(args, kwargs, i, name, default) ==
    IF Len(args) >= i THEN args[i] ELSE KwGet(kwargs, name, default)

\* What the caller of a memoized function does with the value it gets back:
\* in debug mode the value is the first element of the triple.
ValueOf(ret) == ret.val

\* self._fnc(*args, **kwargs) for add, add_alt and lam, which make no
\* memoized calls.  Arithmetic on a function object raises TypeError.
InvokePlain(st, cx, args, kwargs) ==
    LET fnc == st.ws[cx.w]._fnc
        a == Param(args, kwargs, 1, "a", NoneV)
        b == Param(args, kwargs, 2, "b", IntV(0))
        st1 == Log(st, Event("invoke", cx, NoKey, <<a, b>>))
        n == a.n + b.n
    IN IF callable(a) \/ callable(b)
         THEN [st |-> st1, ret |-> Raise("TypeError")]
         ELSE CASE fnc = "add" -> [st |-> st1, ret |-> Retval(IntV(a.n + b.n))]
                [] fnc = "add_alt" -> [st |-> st1, ret |-> Retval(IntV(a.n * b.n))]
                [] OTHER ->
                     [st |-> st1, ret |-> Retval(IF n = 0 THEN IntV(0) ELSE LambdaV(n))]

RECURSIVE _call_without_arguments(_,_,_,_,_)
RECURSIVE Invoke(_,_,_,_)

\* self._fnc(*args, **kwargs): the body of the wrapped function.  dbl and
\* quo call the memoized function, the object that is calling them; 1 // 0
\* raises ZeroDivisionError.
Invoke(st, cx, args, kwargs) ==
    LET fnc == st.ws[cx.w]._fnc
        a == Param(args, kwargs, 1, "a", NoneV)
        b == Param(args, kwargs, 2, "b", IntV(0))
        st1 == Log(st, Event("invoke", cx, NoKey, <<a, b>>))
        n == a.n + b.n
    IN IF fnc \in {"add", "add_alt", "lam"} THEN InvokePlain(st, cx, args, kwargs)
       ELSE IF callable(a) \/ callable(b)
         THEN [st |-> st1, ret |-> Raise("TypeError")]
         ELSE CASE fnc = "quo" ->
                     IF n = 0 THEN [st |-> st1, ret |-> Retval(IntV(0))]
                     ELSE LET r1 == _call_without_arguments(st1, cx.w, <<IntV(n - 1)>>, <<>>, cx.d + 1)
                          IN IF r1.ret.kind = "raise" THEN r1
                             ELSE IF ValueOf(r1.ret).n = 0
                               THEN [st |-> r1.st, ret |-> Raise("ZeroDivisionError")]
                               ELSE [st |-> r1.st,
                                     ret |-> Retval(IntV(1 \div ValueOf(r1.ret).n))]
                [] OTHER ->
                     IF n = 0 THEN [st |-> st1, ret |-> Retval(IntV(0))]
                     ELSE LET r1 == _call_without_arguments(st1, cx.w, <<IntV(n - 1)>>, <<>>, cx.d + 1)
                              r2 == _call_without_arguments(r1.st, cx.w, <<IntV(n - 1)>>, <<>>, cx.d + 1)
                          IN IF r1.ret.kind = "raise" THEN r1
                             ELSE IF r2.ret.kind = "raise" THEN r2
                             ELSE [st |-> r2.st,
                                   ret |-> Retval(IntV(ValueOf(r1.ret).n + ValueOf(r2.ret).n + 1))]

\* The key of the call always derived from the arguments: `self._key` is
\* not looked at.
memkey_always_derived(st, cx, args, kwargs) ==
    LET self == st.ws[cx.w]
    IN [st |-> Log(st, Event("pickle", cx, _memkey(self, args, kwargs),
                             Pickled(args, kwargs))),
        memkey |-> _memkey(self, args, kwargs)]

\* The first statement of _call_without_arguments: the key of the call.
\* Only _memkey pickles the arguments.
Memkey(st, cx, args, kwargs) ==
    LET self == st.ws[cx.w]
    IN IF self._key = None
         THEN [st |-> Log(st, Event("pickle", cx, _memkey(self, args, kwargs),
                                    Pickled(args, kwargs))),
               memkey |-> _memkey(self, args, kwargs)]
         ELSE [st |-> st, memkey |-> ExplicitKey(self._key)]

\* _call_without_arguments that stores None under the key when the wrapped
\* function raises (the write-back in a `finally`).
call_without_arguments_cache_failure(st, w, args, kwargs, d) ==
    LET self == st.ws[w]
        cx == Cx(w, d, MkCall(args, kwargs))
        mk == Memkey(st, cx, args, kwargs)
        memkey == mk.memkey
        rd == _read_cache(mk.st, cx, memkey)
    IN IF rd.raised # "" THEN [st |-> rd.st, ret |-> Raise(rd.raised)]
       ELSE IF rd.is_cached
         THEN [st |-> rd.st,
               ret |-> IF self._debug
                         THEN Triple(rd.retval, memkey, rd.st.ws[w]._latest_source)
                         ELSE Retval(rd.retval)]
         ELSE LET lz == IF self._lazy
                          THEN _lazy_evaluation(rd.st, cx, args, kwargs)
                          ELSE [st |-> rd.st, args |-> args, kwargs |-> kwargs,
                                raised |-> ""]
                  fr == Invoke(lz.st, cx, lz.args, lz.kwargs)
              IN IF lz.raised # "" THEN [st |-> lz.st, ret |-> Raise(lz.raised)]
                 ELSE IF fr.ret.kind = "raise"
                   THEN [st |-> _write_cache(fr.st, cx, memkey, NoneV).st, ret |-> fr.ret]
                   ELSE _write_cache(fr.st, cx, memkey, fr.ret.val)

\* An exception of _read_cache, of _lazy_evaluation or of the wrapped
\* function propagates: the statements after it are not executed.
_call_without_arguments(st, w, args, kwargs, d) ==
    LET self == st.ws[w]
        cx == Cx(w, d, MkCall(args, kwargs))
        mk == Memkey(st, cx, args, kwargs)
        memkey == mk.memkey
        rd == _read_cache(mk.st, cx, memkey)
    IN IF rd.raised # "" THEN [st |-> rd.st, ret |-> Raise(rd.raised)]
       ELSE IF rd.is_cached
         THEN [st |-> rd.st,
               ret |-> IF self._debug
                         THEN Triple(rd.retval, memkey, rd.st.ws[w]._latest_source)
                         ELSE Retval(rd.retval)]
         ELSE LET lz == IF self._lazy
                          THEN _lazy_evaluation(rd.st, cx, args, kwargs)
                          ELSE [st |-> rd.st, args |-> args, kwargs |-> kwargs,
                                raised |-> ""]
                  fr == Invoke(lz.st, cx, lz.args, lz.kwargs)
              IN IF lz.raised # "" THEN [st |-> lz.st, ret |-> Raise(lz.raised)]
                 ELSE IF fr.ret.kind = "raise" THEN fr
                 ELSE _write_cache(fr.st, cx, memkey, fr.ret.val)

(***************************************************************************)
(* The record of the latest operation (`last`) and of what each object did *)
(* since its construction or latest clear() (`since`).  They are written   *)
(* from the log of the operation; none of the methods reads them.          *)
(***************************************************************************)
\* invoked: the calls for which the wrapped function was invoked
\* stored:  the calls whose result was written to the in-memory mapping
\* memo:    the value last written to the in-memory mapping under each key
\* derived: the calls made, each with the key used for it
\* filed:   the calls whose result the object stored while persistent, with
\*          no rmtree of its folder since
\* fromdisk: the calls that were served from a file
\* failed:  the keys for which the write of the file failed
NoSince ==
    [invoked |-> {}, stored |-> {}, memo |-> EmptyMap, derived |-> {}, filed |-> {},
     fromdisk |-> {}, failed |-> {}]

\* op, w, c, ret, ev: the operation, its object, the call, what it gave back
\*          and its log;  w2: the object an Apply made
\* pre:     since[w] before the operation
\* fresh:   the in-memory mapping of w was empty before the operation
\* cleared: the calls stored before the clear() of w that came right before
\* direct:  for an Apply, the objects and the disk that constructing the
\*          object directly with the same options would have given
NoOp ==
    [op |-> "none", w |-> 0, w2 |-> 0, c |-> NoCall, ret |-> ReturnsNone, ev |-> <<>>,
     pre |-> NoSince, fresh |-> FALSE, cleared |-> {},
     direct |-> [ws |-> <<>>, disk |-> <<>>]]

\* The indices of the events of kind e that object w logged.
Events(ev, w, e) == {i \in DOMAIN ev : ev[i].w = w /\ ev[i].e = e}

CallsWith(ev, w, e) == {ev[i].c : i \in Events(ev, w, e)}

RECURSIVE Memo(_,_,_)
Memo(m, ev, w) ==
    IF ev = <<>> THEN m
    ELSE Memo(IF Head(ev).e = "write_memory" /\ Head(ev).w = w
                THEN Put(m, Head(ev).key, Head(ev).vals[1])
                ELSE m,
              Tail(ev), w)

Record(sn, ws, ev) ==
    [w \in Slots |->
        [invoked |-> sn[w].invoked \cup CallsWith(ev, w, "invoke"),
         stored |-> sn[w].stored \cup CallsWith(ev, w, "write_memory"),
         memo |-> Memo(sn[w].memo, ev, w),
         derived |-> sn[w].derived
                     \cup {[c |-> ev[i].c, key |-> ev[i].key] : i \in Events(ev, w, "pickle")},
         filed |-> sn[w].filed
                   \cup IF ws[w]._persistent THEN CallsWith(ev, w, "write_memory") ELSE {},
         fromdisk |-> sn[w].fromdisk \cup CallsWith(ev, w, "read_disk"),
         failed |-> sn[w].failed \cup {ev[i].key : i \in Events(ev, w, "write_fail")}]]

\* After an rmtree of `folder`, no object has a file in it.
Unfile(sn, ws, folder, removed) ==
    [w \in Slots |->
        IF removed /\ ws[w].alive /\ ws[w]._persistent /\ ws[w]._folder = folder
          THEN [sn[w] EXCEPT !.filed = {}]
          ELSE sn[w]]

St0 == [ws |-> wrappers, disk |-> disk, ev |-> <<>>, fault |-> "none"]

\* A call in progress in the thread that uses object w: the statement it is
\* at (`pc`), the call, its key and the value the function returned.
RaceIdle == [pc |-> "idle", c |-> NoCall, memkey |-> NoKey, retval |-> NoneV]

\* proc: the call in progress of each object;  finished: the write-backs in
\* the order in which they ended, each with its object, key and value and
\* with what its os.path.exists(cache_path) found (`sawfile`).
NoRace == [proc |-> [w \in Slots |-> RaceIdle], finished |-> <<>>]

\* Objects are created in the order of the slots.
FreeSlot(w) == ~wrappers[w].alive /\ \A v \in Slots : v < w => wrappers[v].alive

(***************************************************************************)
(* The operations of a program that uses memoize.                          *)
(***************************************************************************)
Init ==
    /\ wrappers = [w \in Slots |-> NoObject]
    /\ disk = [f \in Folders |-> NoFolder]
    /\ last = NoOp
    /\ since = [w \in Slots |-> NoSince]
    /\ ncalls = 0
    /\ race = NoRace

\* memoize(fnc, key=..., persistent=..., lazy=..., debug=..., folder=...), and
\* memoize(key=..., ...) without a function.
Construct(w, fnc, key, persistent, lazy, debug, folder) ==
    /\ FreeSlot(w)
    /\ LET r == __init__(St0, w, fnc, key, persistent, lazy, debug, folder)
       IN /\ wrappers' = r.ws
          /\ disk' = r.disk
          /\ last' = [NoOp EXCEPT !.op = "construct", !.w = w, !.ev = r.ev]
    /\ since' = [since EXCEPT ![w] = NoSince]
    /\ UNCHANGED <<ncalls, race>>

\* Calling an object that has no function with a function: the decorator
\* with arguments.  __call__ gives _call_with_arguments.
Apply(w, fnc, w2) ==
    /\ wrappers[w].alive
    /\ wrappers[w]._fnc = None
    /\ FreeSlot(w2)
    /\ LET r == _call_with_arguments(St0, w, fnc, w2)
           self == wrappers[w]
           direct == __init__(St0, w2, fnc, self._key, self._persistent, self._lazy,
                              self._debug, self._folder)
       IN /\ wrappers' = r.ws
          /\ disk' = r.disk
          /\ last' = [NoOp EXCEPT !.op = "apply", !.w = w, !.w2 = w2, !.ev = r.ev,
                                  !.direct = [ws |-> direct.ws, disk |-> direct.disk]]
    /\ since' = [since EXCEPT ![w2] = NoSince]
    /\ UNCHANGED <<ncalls, race>>

\* Calling an object that has a function.  __call__ gives
\* _call_without_arguments.
Call(w, c) ==
    /\ wrappers[w].alive
    /\ wrappers[w]._fnc # None
    /\ ncalls < MaxCalls
    /\ LET r == _call_without_arguments(St0, w, c.args, c.kwargs, 0)
       IN /\ wrappers' = r.st.ws
          /\ disk' = r.st.disk
          /\ last' = [NoOp EXCEPT !.op = "call", !.w = w, !.c = c, !.ret = r.ret,
                                  !.ev = r.st.ev,
                                  !.pre = since[w],
                                  !.fresh = (wrappers[w]._cache = EmptyMap),
                                  !.cleared = IF last.op = "clear" /\ last.w = w
                                                THEN last.pre.stored ELSE {}]
          /\ since' = Record(since, wrappers, r.st.ev)
    /\ ncalls' = ncalls + 1
    /\ UNCHANGED race

Clear(w) ==
    /\ wrappers[w].alive
    /\ LET r == clear(St0, w)
       IN /\ wrappers' = r.ws
          /\ disk' = r.disk
          /\ last' = [NoOp EXCEPT !.op = "clear", !.w = w, !.ev = r.ev, !.pre = since[w]]
          /\ since' = [Unfile(since, wrappers, wrappers[w]._folder,
                              Events(r.ev, w, "rmtree") # {})
                         EXCEPT ![w] = NoSince]
    /\ UNCHANGED <<ncalls, race>>

\* The folder ".memoize" as an earlier run of the program has left it, with
\* the file of add(1) that memoize(add, persistent=True) wrote.
StoredKey == _memkey([_fnc |-> "add"], <<IntV(1)>>, <<>>)

StoredFolder == [exists |-> TRUE, files |-> Put(EmptyMap, StoredKey, PickleDumps(IntV(1)))]

\* The start of a program on a disk without the folders or with the folder
\* of an earlier run.
InitStored ==
    /\ wrappers = [w \in Slots |-> NoObject]
    /\ disk \in {[f \in Folders |-> NoFolder],
                 [f \in Folders |-> IF f = ".memoize" THEN StoredFolder ELSE NoFolder]}
    /\ last = NoOp
    /\ since = [w \in Slots |-> NoSince]
    /\ ncalls = 0
    /\ race = NoRace

\* Calling an object that has a function, on a disk whose writes may fail.
CallIO(w, c, fault) ==
    /\ wrappers[w].alive
    /\ wrappers[w]._fnc # None
    /\ ncalls < MaxCalls
    /\ LET r == _call_without_arguments([St0 EXCEPT !.fault = fault], w, c.args, c.kwargs, 0)
       IN /\ wrappers' = r.st.ws
          /\ disk' = r.st.disk
          /\ last' = [NoOp EXCEPT !.op = "call", !.w = w, !.c = c, !.ret = r.ret,
                                  !.ev = r.st.ev,
                                  !.pre = since[w],
                                  !.fresh = (wrappers[w]._cache = EmptyMap),
                                  !.cleared = IF last.op = "clear" /\ last.w = w
                                                THEN last.pre.stored ELSE {}]
          /\ since' = Record(since, wrappers, r.st.ev)
    /\ ncalls' = ncalls + 1
    /\ UNCHANGED race

(***************************************************************************)
(* Calls of two threads, each on its own object: a call is a sequence of   *)
(* steps, one per statement that reads or writes the disk, and the steps   *)
(* of the two calls interleave.  The functions called this way make no     *)
(* memoized calls themselves.                                              *)
(***************************************************************************)
\* The write-back of w ends: _write_cache returns.
RaceFinish(w, sawfile) ==
    [race EXCEPT !.proc[w] = RaceIdle,
                 !.finished = Append(@, [w |-> w, key |-> race.proc[w].memkey,
                                         val |-> race.proc[w].retval,
                                         sawfile |-> sawfile])]

\* Lines 154-164: the key and _read_cache.  A hit returns; a miss goes on.
RaceBegin(w, c) ==
    /\ wrappers[w].alive
    /\ wrappers[w]._fnc # None
    /\ race.proc[w].pc = "idle"
    /\ ncalls < MaxCalls
    /\ LET cx == Cx(w, 0, c)
           mk == Memkey(St0, cx, c.args, c.kwargs)
           rd == _read_cache(mk.st, cx, mk.memkey)
       IN /\ wrappers' = rd.st.ws
          /\ race' = IF rd.raised # "" \/ rd.is_cached THEN race
                      ELSE [race EXCEPT !.proc[w] = [pc |-> "invoke", c |-> c,
                                                     memkey |-> mk.memkey,
                                                     retval |-> NoneV]]
    /\ ncalls' = ncalls + 1
    /\ UNCHANGED <<disk, last, since>>

\* Lines 165-170: _lazy_evaluation and self._fnc(*args, **kwargs).
RaceInvoke(w) ==
    /\ race.proc[w].pc = "invoke"
    /\ LET c == race.proc[w].c
           cx == Cx(w, 0, c)
           lz == IF wrappers[w]._lazy
                   THEN _lazy_evaluation(St0, cx, c.args, c.kwargs)
                   ELSE [st |-> St0, args |-> c.args, kwargs |-> c.kwargs, raised |-> ""]
           fr == InvokePlain(lz.st, cx, lz.args, lz.kwargs)
       IN race' = IF lz.raised # "" \/ fr.ret.kind = "raise"
                    THEN [race EXCEPT !.proc[w] = RaceIdle]
                    ELSE [race EXCEPT !.proc[w].pc = "store", !.proc[w].retval = fr.ret.val]
    /\ UNCHANGED <<wrappers, disk, last, since, ncalls>>

\* Line 207: self._cache[memkey] = pickle.dumps(retval).
RaceStore(w) ==
    /\ race.proc[w].pc = "store"
    /\ LET p == race.proc[w]
       IN IF ~Picklable(p.retval)
            THEN /\ race' = [race EXCEPT !.proc[w] = RaceIdle]
                 /\ UNCHANGED wrappers
            ELSE /\ wrappers' = WriteMemory(St0, Cx(w, 0, p.c), p.memkey, p.retval).ws
                 /\ race' = IF wrappers[w]._persistent
                              THEN [race EXCEPT !.proc[w].pc = "test"]
                              ELSE RaceFinish(w, FALSE)
    /\ UNCHANGED <<disk, last, since, ncalls>>

\* Line 210: if not os.path.exists(cache_path).  With the file there, the
\* write-back ends.
RaceTest(w) ==
    /\ race.proc[w].pc = "test"
    /\ race' = IF FileExists(St0, wrappers[w]._folder, race.proc[w].memkey)
                 THEN RaceFinish(w, TRUE)
                 ELSE [race EXCEPT !.proc[w].pc = "open"]
    /\ UNCHANGED <<wrappers, disk, last, since, ncalls>>

\* Line 211: open(cache_path, 'wb') makes the file, or empties it.
RaceOpen(w) ==
    /\ race.proc[w].pc = "open"
    /\ IF FolderExists(St0, wrappers[w]._folder)
         THEN /\ disk' = [disk EXCEPT ![wrappers[w]._folder].files =
                              Put(@, race.proc[w].memkey, <<>>)]
              /\ race' = [race EXCEPT !.proc[w].pc = "dump"]
         ELSE /\ race' = [race EXCEPT !.proc[w] = RaceIdle]
              /\ UNCHANGED disk
    /\ UNCHANGED <<wrappers, last, since, ncalls>>

\* RaceDump on a file opened with 'ab': the pickle goes after what the file
\* holds.
race_dump_append(w) ==
    /\ race.proc[w].pc = "dump"
    /\ disk' = [disk EXCEPT ![wrappers[w]._folder].files =
                    Put(@, race.proc[w].memkey,
                        @[race.proc[w].memkey] \o PickleDumps(race.proc[w].retval))]
    /\ race' = RaceFinish(w, FALSE)
    /\ UNCHANGED <<wrappers, last, since, ncalls>>

\* Line 212 and the end of the `with`: pickle.dump(retval, fd) and close.
RaceDump(w) ==
    /\ race.proc[w].pc = "dump"
    /\ disk' = [disk EXCEPT ![wrappers[w]._folder].files =
                    Put(@, race.proc[w].memkey, PickleDumps(race.proc[w].retval))]
    /\ race' = RaceFinish(w, FALSE)
    /\ UNCHANGED <<wrappers, last, since, ncalls>>

\* A program with one memoized function, made directly or by the decorator
\* with arguments: any options, any of the calls.
Next ==
    \/ \E fnc \in {"add", "dbl", None}, key \in ExplicitKeys \cup {None},
          persistent \in BOOLEAN, lazy \in BOOLEAN, debug \in BOOLEAN, folder \in Folders :
            Construct(1, fnc, key, persistent, lazy, debug, folder)
    \/ \E fnc \in {"add", "dbl"} : Apply(1, fnc, 2)
    \/ \E w \in Slots, c \in Calls : Call(w, c)
    \/ \E w \in Slots : Clear(w)

Spec == Init /\ [][Next]_vars

\* A program with two memoized functions in debug mode and without explicit
\* key, called with integers: the objects may share a folder or a function
\* name.
NextShared ==
    \/ \E w \in Slots, fnc \in Fncs, persistent \in BOOLEAN, folder \in Folders :
            Construct(w, fnc, None, persistent, FALSE, TRUE, folder)
    \/ \E w \in Slots, c \in PlainCalls : Call(w, c)
    \/ \E w \in Slots : Clear(w)

SpecShared == Init /\ [][NextShared]_vars

\* A program in which calls fail: a lazy argument or the function raises, the
\* return value does not pickle, the write of the file fails.  The objects
\* are lazy and in debug mode, without explicit key and on the folder
\* ".memoize"; the second is a persistent object around add.
NextErrors ==
    \/ \E fnc \in ErrFncs, persistent \in BOOLEAN :
            Construct(1, fnc, None, persistent, TRUE, TRUE, ".memoize")
    \/ Construct(2, "add", None, TRUE, TRUE, TRUE, ".memoize")
    \/ \E w \in Slots, c \in ErrCalls, fault \in Faults : CallIO(w, c, fault)
    \/ \E w \in Slots : Clear(w)

SpecErrors == InitStored /\ [][NextErrors]_vars

\* A program with two threads, each calling its own persistent object in
\* debug mode; the objects are on one folder, around add or around add_alt.
NextRace ==
    \/ \E w \in Slots, fnc \in {"add", "add_alt"} :
            Construct(w, fnc, None, TRUE, FALSE, TRUE, ".memoize")
    \/ \E w \in Slots, c \in PlainCalls : RaceBegin(w, c)
    \/ \E w \in Slots : RaceInvoke(w)
    \/ \E w \in Slots : RaceStore(w)
    \/ \E w \in Slots : RaceTest(w)
    \/ \E w \in Slots : RaceOpen(w)
    \/ \E w \in Slots : RaceDump(w)

SpecRace == Init /\ [][NextRace]_vars

(***************************************************************************)
(* What the latest operation did, read from its record.                    *)
(***************************************************************************)
\* The object of the latest operation.
Self == wrappers[last.w]

IsCall == last.op = "call"

\* The events of kind e of the caller's own call, not of the calls the
\* wrapped function made.
Ev0(e) == {i \in DOMAIN last.ev : last.ev[i].e = e /\ last.ev[i].d = 0}

Returned == last.ret.kind \in {"retval", "triple"}

\* The call of event i had been invoked, or stored, earlier since the
\* construction or latest clear() of the object.
InvokedBefore(i) ==
    \/ last.ev[i].c \in last.pre.invoked
    \/ \E j \in 1..(i - 1) : last.ev[j].e = "invoke" /\ last.ev[j].c = last.ev[i].c

StoredBefore(i) ==
    \/ last.ev[i].c \in last.pre.stored
    \/ \E j \in 1..(i - 1) : last.ev[j].e = "write_memory" /\ last.ev[j].c = last.ev[i].c

\* The call was served from the in-memory mapping, with the value last
\* written under its key, and the wrapped function was not invoked.
ServedFromMemo ==
    /\ Ev0("invoke") = {}
    /\ Returned
    /\ \E i \in Ev0("read_memory") :
          /\ last.ev[i].key \in DOMAIN last.pre.memo
          /\ ValueOf(last.ret) = last.pre.memo[last.ev[i].key]

(***************************************************************************)
(* C1.  As claimed: between construction (or the latest clear()) and the   *)
(* next clear() of an object, the wrapped function is invoked at most once *)
(* for given arguments, and every later call with these arguments returns  *)
(* the memoized value without invoking it.                                 *)
(***************************************************************************)
C1_InvokedAtMostOnce ==
    IsCall =>
        /\ \A i \in DOMAIN last.ev : last.ev[i].e = "invoke" => ~InvokedBefore(i)
        /\ last.c \in last.pre.invoked => ServedFromMemo

(***************************************************************************)
(* C1, amended.  Between construction (or the latest clear()) and the next *)
(* clear() of an object, the wrapped function is not invoked for arguments *)
(* for which an invocation has returned and been stored, and every later   *)
(* call with these arguments returns the value memoized under its key      *)
(* without invoking it.  An invocation that raises stores nothing.         *)
(***************************************************************************)
C1_StoredAtMostOnce ==
    IsCall =>
        /\ \A i \in DOMAIN last.ev : last.ev[i].e = "invoke" => ~StoredBefore(i)
        /\ last.c \in last.pre.stored => ServedFromMemo

\* A second call add(1) of a non-persistent object is answered with the 1
\* that the first call stored.
C1_Witness ==
    /\ IsCall
    /\ Self._fnc = "add" /\ Self._key = None /\ ~Self._persistent
    /\ last.c = MkCall(<<IntV(1)>>, <<>>)
    /\ last.c \in last.pre.stored
    /\ ServedFromMemo
    /\ ValueOf(last.ret) = IntV(1)

(***************************************************************************)
(* What the wrapped function gives when it is called directly.             *)
(***************************************************************************)
\* arg() if callable(arg) else arg
Resolve(v) == IF callable(v) THEN ThunkValue(v.s) ELSE v

\* The parameters a and b that a call binds, as the wrapped function of the
\* object receives them: resolved if the object is lazy.
Received(self, c) ==
    LET a == Param(c.args, c.kwargs, 1, "a", NoneV)
        b == Param(c.args, c.kwargs, 2, "b", IntV(0))
    IN IF self._lazy THEN <<Resolve(a), Resolve(b)>> ELSE <<a, b>>

\* add(a, b), add_alt(a, b) and dbl(a, b) for integers: dbl(n) is 2^n - 1.
DirectValue(fnc, a, b) ==
    CASE fnc = "add" -> IntV(a.n + b.n)
      [] fnc = "add_alt" -> IntV(a.n * b.n)
      [] OTHER -> IntV(2 ^ (a.n + b.n) - 1)

\* The objects handed to pickle.dumps if every callable argument, positional
\* or keyword, is replaced by its name (all callables here have one).
RECURSIVE ByName(_)
ByName(vals) ==
    IF vals = <<>> THEN <<>>
    ELSE <<IF callable(Head(vals)) THEN StrV(Head(vals).s) ELSE Head(vals)>>
         \o ByName(Tail(vals))

(***************************************************************************)
(* C2.  For an object without explicit key, every call that returns        *)
(* returns the value that the wrapped function gives for these arguments   *)
(* when called directly, and a value read from the in-memory mapping was   *)
(* stored by a call with the same arguments.                               *)
(***************************************************************************)
C2_SameAsDirect ==
    IsCall /\ Self._key = None /\ Returned =>
        LET r == Received(Self, last.c)
        IN /\ ~callable(r[1]) /\ ~callable(r[2])
           /\ ValueOf(last.ret) = DirectValue(Self._fnc, r[1], r[2])
           /\ Ev0("read_memory") # {} => last.c \in last.pre.stored

(***************************************************************************)
(* C3.  Without explicit key, two calls of an object with the same         *)
(* arguments derive the same key, and two calls that differ in an argument *)
(* derive different keys.                                                  *)
(***************************************************************************)
C3_KeysDistinguish ==
    \A w \in Slots : \A p, q \in since[w].derived :
        /\ p.c = q.c => p.key = q.key
        /\ p.c # q.c => p.key # q.key

(***************************************************************************)
(* C4.  Key derivation hands to the serializer the arguments with every    *)
(* callable, positional or keyword, replaced by its name: no callable is   *)
(* pickled, and a named callable is not replaced by the sentinel.          *)
(***************************************************************************)
C4_CallablesByName ==
    IsCall /\ Self._key = None =>
        \A i \in Ev0("pickle") :
            last.ev[i].vals = ByName(last.c.args \o KwValues(last.c.kwargs))

(***************************************************************************)
(* C5.  A persistent object whose in-memory mapping is empty, called with  *)
(* arguments for which another persistent object around the same function  *)
(* and on the same folder has stored a result that no clear() has removed, *)
(* returns the stored value without invoking the wrapped function and      *)
(* reports the tier "disk".                                                *)
(***************************************************************************)
\* The other objects that have cached the call of the latest operation.
Cachers ==
    {v \in Slots \ {last.w} :
        /\ wrappers[v].alive /\ wrappers[v]._persistent
        /\ wrappers[v]._fnc = Self._fnc
        /\ wrappers[v]._folder = Self._folder
        /\ last.c \in since[v].filed}

C5_FreshFromDisk ==
    IsCall /\ Self._persistent /\ last.fresh =>
        \A v \in Cachers :
            /\ Ev0("invoke") = {}
            /\ Returned
            /\ \E i \in Ev0("read_disk") :
                  /\ last.ev[i].key \in DOMAIN since[v].memo
                  /\ ValueOf(last.ret) = since[v].memo[last.ev[i].key]
            /\ last.ret.kind = "triple" /\ last.ret.source = "disk"

\* The second object around dbl, on the folder of the first, gives the 1 that
\* the first stored for dbl(1).
C5_Witness ==
    /\ IsCall /\ Self._persistent /\ last.fresh /\ last.w = 2
    /\ Self._fnc = "dbl"
    /\ last.c = MkCall(<<IntV(1)>>, <<>>)
    /\ Cachers = {1}
    /\ Ev0("invoke") = {} /\ Ev0("read_disk") # {}
    /\ last.ret.kind = "triple" /\ last.ret.source = "disk"
    /\ ValueOf(last.ret) = IntV(1)

(***************************************************************************)
(* C6.  The call that follows a clear() of its object, with arguments that *)
(* were cached before the clear(), invokes the wrapped function again and  *)
(* in debug mode reports the tier "function".                              *)
(***************************************************************************)
C6_ClearForgets ==
    IsCall /\ last.c \in last.cleared =>
        /\ Ev0("invoke") # {}
        /\ last.ret.kind = "triple" => last.ret.source = "function"

(***************************************************************************)
(* C7.  A lazy object, on a miss, calls each callable argument once, the   *)
(* positional ones and then the keyword ones, and the wrapped function     *)
(* receives the values they return and the other arguments unchanged; on a *)
(* hit no callable argument is called.                                     *)
(***************************************************************************)
\* The callables that the latest operation called, in order.
ThunksRun ==
    LET log == SelectSeq(last.ev, LAMBDA x : x.e = "thunk")
    IN [i \in DOMAIN log |-> log[i].vals[1]]

IsHit == Ev0("read_memory") # {} \/ Ev0("read_disk") # {}

C7_Lazy ==
    IsCall /\ Self._lazy =>
        IF IsHit
          THEN ThunksRun = <<>> /\ Ev0("invoke") = {}
          ELSE /\ ThunksRun = SelectSeq(last.c.args \o KwValues(last.c.kwargs), callable)
               /\ \A i \in DOMAIN last.ev : last.ev[i].e = "thunk" => last.ev[i].d = 0
               /\ Cardinality(Ev0("invoke")) = 1
               /\ \A i \in Ev0("invoke") :
                     last.ev[i].vals =
                        <<Resolve(Param(last.c.args, last.c.kwargs, 1, "a", NoneV)),
                          Resolve(Param(last.c.args, last.c.kwargs, 2, "b", IntV(0)))>>

\* add(g, b=h) on a lazy object: g and h are called, add receives 0 and 1.
C7_Witness ==
    /\ IsCall /\ Self._lazy /\ Self._fnc = "add"
    /\ last.c = MkCall(<<FnV("g")>>, <<Kw("b", FnV("h"))>>)
    /\ ~IsHit
    /\ ThunksRun = <<FnV("g"), FnV("h")>>
    /\ \E i \in Ev0("invoke") : last.ev[i].vals = <<IntV(0), IntV(1)>>
    /\ Returned /\ ValueOf(last.ret) = IntV(1)

\* add(h) on a lazy object that holds the key of add(g): h is not called.
C7_WitnessHit ==
    /\ IsCall /\ Self._lazy
    /\ last.c = MkCall(<<FnV("h")>>, <<>>)
    /\ IsHit
    /\ ThunksRun = <<>>

(***************************************************************************)
(* C8.  Calling an object that has no function with a function makes a new *)
(* object around the function with the key, the persistence, lazy and      *)
(* debug flags and the folder of the first; the objects and the disk are   *)
(* then what constructing it directly with these options would have given, *)
(* so every later operation behaves the same.                              *)
(***************************************************************************)
C8_Decorator ==
    last.op = "apply" =>
        LET t == wrappers[last.w]
            n == wrappers[last.w2]
        IN /\ n.alive /\ n._fnc # None
           /\ n._key = t._key
           /\ n._persistent = t._persistent
           /\ n._lazy = t._lazy
           /\ n._debug = t._debug
           /\ n._folder = t._folder
           /\ n._cache = EmptyMap
           /\ wrappers = last.direct.ws
           /\ disk = last.direct.disk

\* memoize(persistent=True, key="k", lazy=True, debug=True, folder="alt")(add)
C8_Witness ==
    /\ last.op = "apply"
    /\ wrappers[last.w]._key = "k" /\ wrappers[last.w]._persistent
    /\ wrappers[last.w]._lazy /\ wrappers[last.w]._debug
    /\ wrappers[last.w]._folder = "alt"
    /\ wrappers[last.w2]._fnc = "add" /\ wrappers[last.w2]._folder = "alt"

(***************************************************************************)
(* C9.  In debug mode the tier of the triple names the source of the value *)
(* of the call: "function" exactly when the call invoked the wrapped       *)
(* function, "memory" exactly when it read the in-memory mapping, "disk"   *)
(* exactly when it read a file.                                            *)
(***************************************************************************)
C9_TierIsSource ==
    IsCall /\ last.ret.kind = "triple" =>
        /\ last.ret.source = "function" <=> Ev0("invoke") # {}
        /\ last.ret.source = "memory" <=> Ev0("read_memory") # {}
        /\ last.ret.source = "disk" <=> Ev0("read_disk") # {}

(***************************************************************************)
(* C10.  An object with an explicit key uses this key for every call and   *)
(* never pickles the arguments; once a value is stored under the key, a    *)
(* call with any arguments returns it without invoking the wrapped         *)
(* function.                                                               *)
(***************************************************************************)
C10_ExplicitKey ==
    IsCall /\ Self._key # None =>
        /\ \A i \in DOMAIN last.ev :
              /\ last.ev[i].e # "pickle"
              /\ last.ev[i].e \in {"read_memory", "read_disk", "write_memory", "write_disk"}
                    => last.ev[i].key = ExplicitKey(Self._key)
        /\ last.ret.kind = "triple" => last.ret.key = ExplicitKey(Self._key)
        /\ ExplicitKey(Self._key) \in DOMAIN last.pre.memo => ServedFromMemo

\* add(1) on an object with key "k" that has stored add(0): the call gives 0.
C10_Witness ==
    /\ IsCall /\ Self._key = "k" /\ Self._fnc = "add"
    /\ last.c = MkCall(<<IntV(1)>>, <<>>)
    /\ last.pre.stored = {MkCall(<<IntV(0)>>, <<>>)}
    /\ ServedFromMemo
    /\ ValueOf(last.ret) = IntV(0)

(***************************************************************************)
(* C11.  A write-back stores the result in the in-memory mapping under the *)
(* key whatever the mapping and the folder hold, and writes the file of    *)
(* the key exactly when the object is persistent and the folder has no     *)
(* file for the key at that moment; a file that exists keeps its content   *)
(* through every operation of every object, and it disappears only in a    *)
(* clear() of a persistent object on its folder.                           *)
(***************************************************************************)
\* The folder has a file for the key when event i of the log happens: the
\* file was there before the operation or an earlier write-back wrote it.
HasFileAt(ev, i, folder, key) ==
    \/ disk[folder].exists /\ key \in DOMAIN disk[folder].files
    \/ \E j \in 1..(i - 1) :
          /\ ev[j].e = "write_disk" /\ ev[j].key = key
          /\ wrappers[ev[j].w]._folder = folder

\* Event i, a write to the in-memory mapping, is followed by the write of
\* the same value to the file of the key.
WritesFile(ev, i) ==
    /\ i < Len(ev)
    /\ ev[i + 1].e = "write_disk" /\ ev[i + 1].w = ev[i].w
    /\ ev[i + 1].key = ev[i].key /\ ev[i + 1].vals = ev[i].vals

C11_WriteBack ==
    [][LET ev == last'.ev
           o == wrappers[last'.w]
       IN /\ \A f \in Folders : \A k \in DOMAIN disk[f].files :
                \/ /\ disk'[f].exists /\ k \in DOMAIN disk'[f].files
                   /\ disk'[f].files[k] = disk[f].files[k]
                \/ last'.op = "clear" /\ o._persistent /\ o._folder = f
          /\ last'.op = "call" =>
                /\ \A i \in DOMAIN ev :
                      /\ ev[i].e = "write_memory" =>
                            (WritesFile(ev, i) <=>
                                /\ wrappers[ev[i].w]._persistent
                                /\ ~HasFileAt(ev, i, wrappers[ev[i].w]._folder, ev[i].key))
                      /\ ev[i].e = "write_disk" =>
                            i > 1 /\ ev[i - 1].e = "write_memory" /\ WritesFile(ev, i - 1)
                      /\ ev[i].e = "invoke" /\ ev[i].d = 0 /\ last'.ret.kind # "raise" =>
                            \E j \in DOMAIN ev :
                                /\ j > i /\ ev[j].e = "write_memory" /\ ev[j].d = 0
                                /\ ev[j].vals = <<ValueOf(last'.ret)>>
                                /\ ev[j].key \in DOMAIN wrappers'[last'.w]._cache
                                /\ wrappers'[last'.w]._cache[ev[j].key]
                                      = PickleDumps(ValueOf(last'.ret))]_vars

\* dbl(1) on a persistent object with the key "k": the nested dbl(0) writes
\* the 0 to the mapping and to the file, the write-back of dbl(1) puts the 1
\* into the mapping and leaves the file alone.
C11_Witness ==
    /\ IsCall /\ Self._persistent /\ Self._key = "k" /\ Self._fnc = "dbl"
    /\ last.c = MkCall(<<IntV(1)>>, <<>>)
    /\ Cardinality(Events(last.ev, last.w, "write_memory")) = 2
    /\ Cardinality(Events(last.ev, last.w, "write_disk")) = 1
    /\ Self._cache[ExplicitKey("k")] = PickleDumps(IntV(1))
    /\ disk[Self._folder].files[ExplicitKey("k")] = PickleDumps(IntV(0))

(***************************************************************************)
(* C15.  No operation of an object that is not persistent (construction,   *)
(* the decorator call, a call, clear()) creates, reads, writes or removes  *)
(* a folder or a file: the disk is the same after the operation and the    *)
(* log has no access to it; clear() ends without an exception.             *)
(***************************************************************************)
DiskEvents == {"mkdir", "rmtree", "read_disk", "write_disk"}

C15_NoDiskUnlessPersistent ==
    [][~wrappers'[last'.w]._persistent =>
          /\ disk' = disk
          /\ \A i \in DOMAIN last'.ev : last'.ev[i].e \notin DiskEvents
          /\ last'.op = "clear" =>
                last'.ret.kind = "none" /\ wrappers'[last'.w]._cache = EmptyMap]_vars

\* clear() of an object that is not persistent and has stored a result,
\* while its folder exists and holds the file of another object.
C15_Witness ==
    /\ last.op = "clear" /\ ~Self._persistent
    /\ last.pre.stored # {}
    /\ Self._cache = EmptyMap
    /\ disk[Self._folder].exists /\ DOMAIN disk[Self._folder].files # {}
    /\ last.ret.kind = "none"

(***************************************************************************)
(* C16.  The folder of every persistent object exists after every          *)
(* operation of any object: after its construction and after the calls and *)
(* the clear() of the objects, persistent or not, that share the folder.   *)
(***************************************************************************)
C16_FolderExists ==
    \A w \in Slots :
        wrappers[w].alive /\ wrappers[w]._persistent => disk[wrappers[w]._folder].exists

\* The clear() of one of two persistent objects on a folder removed the
\* folder with a file of the other and made it again.
C16_Witness ==
    /\ last.op = "clear" /\ Self._persistent
    /\ Events(last.ev, last.w, "rmtree") # {} /\ Events(last.ev, last.w, "mkdir") # {}
    /\ \E v \in Slots \ {last.w} :
          /\ wrappers[v].alive /\ wrappers[v]._persistent
          /\ wrappers[v]._folder = Self._folder
          /\ since[v].stored # {}
    /\ disk[Self._folder].exists /\ disk[Self._folder].files = EmptyMap

(***************************************************************************)
(* C19.  A persistent object without explicit key whose in-memory mapping  *)
(* is empty, called with arguments for which a persistent object around a  *)
(* different function of the same name and on the same folder has stored a *)
(* result that no clear() has removed, derives the key of that object and  *)
(* returns its value from the file, without invoking its own function.     *)
(***************************************************************************)
\* The other objects, around another function of the same name, that have
\* cached the call of the latest operation.
NameSakes ==
    {v \in Slots \ {last.w} :
        /\ wrappers[v].alive /\ wrappers[v]._persistent
        /\ wrappers[v]._key = None
        /\ wrappers[v]._fnc # Self._fnc
        /\ __name__(wrappers[v]._fnc) = __name__(Self._fnc)
        /\ wrappers[v]._folder = Self._folder
        /\ last.c \in since[v].filed}

C19_SameNameSameKey ==
    IsCall /\ Self._persistent /\ Self._key = None /\ last.fresh =>
        \A v \in NameSakes :
            /\ \A i \in Ev0("pickle") :
                  [c |-> last.c, key |-> last.ev[i].key] \in since[v].derived
            /\ Ev0("invoke") = {}
            /\ Returned
            /\ \E i \in Ev0("read_disk") :
                  /\ last.ev[i].key \in DOMAIN since[v].memo
                  /\ ValueOf(last.ret) = since[v].memo[last.ev[i].key]

\* add_alt(1), which is 0, on the folder where the object around add has
\* stored add(1): the call gives 1.
C19_Witness ==
    /\ IsCall /\ Self._persistent /\ last.fresh /\ last.w = 2
    /\ Self._fnc = "add_alt" /\ wrappers[1]._fnc = "add"
    /\ last.c = MkCall(<<IntV(1)>>, <<>>)
    /\ NameSakes = {1}
    /\ Ev0("invoke") = {} /\ Ev0("read_disk") # {}
    /\ ValueOf(last.ret) = IntV(1)
    /\ DirectValue(Self._fnc, IntV(1), IntV(0)) = IntV(0)

(***************************************************************************)
(* What a step did, read from the record of its operation.                 *)
(***************************************************************************)
\* The events of kind e, at depth 0, in the log of the operation of a step.
StepEv0(e) == {i \in DOMAIN last'.ev : last'.ev[i].e = e /\ last'.ev[i].d = 0}

\* The exceptions of the wrapped functions and of the lazy arguments.
FncErrors == {"TypeError", "ZeroDivisionError", "ValueError"}

\* The step left the in-memory mapping of its object and the disk alone.
CacheUnchanged ==
    /\ wrappers'[last'.w]._cache = wrappers[last'.w]._cache
    /\ disk' = disk

ErrDirect(fnc, c) == IF fnc = "add" THEN IntV(c.args[1].n) ELSE IntV(0)

C14_WriteFailureKeepsResult ==
    IsCall =>
        /\ \A i \in DOMAIN last.ev : last.ev[i].e = "write_fail" =>
              /\ last.ret = Raise("OSError")
              /\ i = Len(last.ev)
              /\ last.ev[i].vals = <<ErrDirect(Self._fnc, last.ev[i].c)>>
              /\ last.ev[i].key \in DOMAIN Self._cache
              /\ Self._cache[last.ev[i].key] = PickleDumps(ErrDirect(Self._fnc, last.ev[i].c))
        /\ Returned =>
              \A v \in Slots, i \in Ev0("pickle") :
                  /\ wrappers[v].alive /\ wrappers[v]._fnc = Self._fnc
                  /\ v = last.w \/ (Self._persistent /\ wrappers[v]._folder = Self._folder)
                  /\ last.ev[i].key \in since[v].failed
                  => ValueOf(last.ret) = since[v].memo[last.ev[i].key]

\* add(1) on the object whose write of the file of add(1) failed in
\* pickle.dump: the file is unreadable, the call gives the 1 of the mapping.
C14_Witness ==
    /\ IsCall /\ Self._fnc = "add" /\ Self._persistent
    /\ last.c = MkCall(<<IntV(1)>>, <<>>)
    /\ \E i \in Ev0("pickle") :
          /\ last.ev[i].key \in last.pre.failed
          /\ last.ev[i].key \in DOMAIN disk[Self._folder].files
          /\ ~Loadable(disk[Self._folder].files[last.ev[i].key])
    /\ ServedFromMemo
    /\ ValueOf(last.ret) = IntV(1)

\* add(1) on the other object of the folder: pickle.load of the file raises.
C14_WitnessFresh ==
    /\ IsCall /\ Self._fnc = "add" /\ Self._persistent /\ last.fresh
    /\ last.c = MkCall(<<IntV(1)>>, <<>>)
    /\ \E v \in Slots \ {last.w}, i \in Ev0("pickle") :
          /\ wrappers[v]._fnc = "add" /\ last.ev[i].key \in since[v].failed
    /\ last.ret.kind = "raise" /\ last.ret.source \in {"EOFError", "UnpicklingError"}

(***************************************************************************)
(* C17.  A call served from a file leaves the in-memory mapping and the    *)
(* disk as they were and reports the tier "disk"; and a call of a          *)
(* persistent object whose mapping lacks the key while the folder has a    *)
(* readable file for it is served from the file: so is every repetition of *)
(* the call, until a clear() or a write-back for the key.                  *)
(***************************************************************************)
C17_DiskHitNotPromoted ==
    [][last'.op = "call" =>
          LET ev == last'.ev
              o == wrappers[last'.w]
          IN /\ \A i \in StepEv0("read_disk") :
                    /\ CacheUnchanged
                    /\ ev[i].key \notin DOMAIN wrappers'[last'.w]._cache
                    /\ last'.ret.kind = "triple" => last'.ret.source = "disk"
                    /\ ValueOf(last'.ret) = PickleLoads(disk[o._folder].files[ev[i].key])
             /\ \A i \in StepEv0("pickle") :
                    /\ o._persistent
                    /\ ev[i].key \notin DOMAIN o._cache
                    /\ disk[o._folder].exists
                    /\ ev[i].key \in DOMAIN disk[o._folder].files
                    /\ Loadable(disk[o._folder].files[ev[i].key])
                    => StepEv0("read_disk") # {} /\ StepEv0("invoke") = {}]_vars

\* add(1) for the second time on an object that has never invoked add: both
\* calls are served from the file that an earlier run has left.
C17_Witness ==
    /\ IsCall /\ Self._persistent /\ Self._fnc = "add"
    /\ last.c = MkCall(<<IntV(1)>>, <<>>)
    /\ last.c \in last.pre.fromdisk
    /\ last.pre.invoked = {}
    /\ Ev0("read_disk") # {} /\ Ev0("invoke") = {}
    /\ Self._cache = EmptyMap
    /\ last.ret.kind = "triple" /\ last.ret.source = "disk"
    /\ ValueOf(last.ret) = IntV(1)

(***************************************************************************)
(* C18.  As claimed: if the wrapped function or a lazy argument raises in  *)
(* a miss, the call raises the exception and leaves the in-memory mapping  *)
(* and the disk exactly as they were, and the next call with the same      *)
(* arguments is a miss again and invokes the wrapped function again.       *)
(***************************************************************************)
\* The step is the call that comes right after a call of the same object
\* with the same arguments in which the function or a lazy argument raised.
CallAgainAfterRaise ==
    /\ last.op = "call" /\ last.ret.kind = "raise" /\ last.ret.source \in FncErrors
    /\ last'.op = "call" /\ last'.w = last.w /\ last'.c = last.c

IsMiss == StepEv0("read_memory") = {} /\ StepEv0("read_disk") = {}

C18_RaiseLeavesState ==
    [][/\ last'.op = "call" /\ last'.ret.kind = "raise" /\ last'.ret.source \in FncErrors
            => CacheUnchanged
       /\ CallAgainAfterRaise => (IsMiss /\ StepEv0("invoke") # {})]_vars

(***************************************************************************)
(* C18, amended.  If the wrapped function or a lazy argument raises in a   *)
(* miss, the call raises the exception and itself stores nothing: the      *)
(* in-memory mapping and the disk are as before the call except for what   *)
(* the calls that the wrapped function made to the memoized function have  *)
(* stored.  Unless one of these stored the key of the call, the next call  *)
(* with the same arguments is a miss again: it resolves the lazy arguments *)
(* again and, if none of them raises, invokes the wrapped function again.  *)
(***************************************************************************)
\* Entry k of the mapping `new` is the entry of `old`, or the value of an
\* event of kind e of a call that the wrapped function made.
OldOrNested(new, old, k, e) ==
    \/ k \in DOMAIN old /\ new[k] = old[k]
    \/ \E i \in DOMAIN last'.ev :
          /\ last'.ev[i].e = e /\ last'.ev[i].d > 0 /\ last'.ev[i].key = k
          /\ new[k] = PickleDumps(last'.ev[i].vals[1])

\* The in-memory mapping of the object of the latest call does not hold the
\* key of the call.
KeyNotStored ==
    \A i \in Ev0("pickle") : last.ev[i].key \notin DOMAIN wrappers[last.w]._cache

C18_RaiseStoresNothingItself ==
    [][/\ last'.op = "call" /\ last'.ret.kind = "raise" /\ last'.ret.source \in FncErrors
            => LET w == last'.w
                   f == wrappers[w]._folder
               IN /\ \A e \in {"write_memory", "write_disk", "write_fail", "dumps_error"} :
                        StepEv0(e) = {}
                  /\ DOMAIN wrappers[w]._cache \subseteq DOMAIN wrappers'[w]._cache
                  /\ \A k \in DOMAIN wrappers'[w]._cache :
                        OldOrNested(wrappers'[w]._cache, wrappers[w]._cache, k, "write_memory")
                  /\ \A g \in Folders \ {f} : disk'[g] = disk[g]
                  /\ disk'[f].exists = disk[f].exists
                  /\ DOMAIN disk[f].files \subseteq DOMAIN disk'[f].files
                  /\ \A k \in DOMAIN disk'[f].files :
                        OldOrNested(disk'[f].files, disk[f].files, k, "write_disk")
       /\ (CallAgainAfterRaise /\ KeyNotStored)
            => /\ IsMiss
               /\ ThunksRun' = ThunksRun
               /\ last'.ret.source # "ValueError" => StepEv0("invoke") # {}]_vars

\* quo(1) for the second time: the first call has stored quo(0) and raised
\* ZeroDivisionError; the call invokes quo again and raises again.
C18_Witness ==
    /\ IsCall /\ Self._fnc = "quo" /\ Self._persistent
    /\ last.c = MkCall(<<IntV(1)>>, <<>>)
    /\ last.c \in last.pre.invoked /\ last.c \notin last.pre.stored
    /\ last.pre.stored = {MkCall(<<IntV(0)>>, <<>>)}
    /\ Ev0("invoke") # {} /\ Ev0("read_memory") = {} /\ Ev0("read_disk") = {}
    /\ last.ret = Raise("ZeroDivisionError")
    /\ Cardinality(DOMAIN Self._cache) = 1

\* add(bad) for the second time on a lazy object: bad is called again and
\* raises again, add is not invoked.
C18_WitnessLazy ==
    /\ IsCall /\ Self._fnc = "add" /\ Self._lazy
    /\ last.c = MkCall(<<FnV("bad")>>, <<>>)
    /\ ncalls = 2 /\ last.pre.derived # {}
    /\ Ev0("thunk") # {} /\ Ev0("invoke") = {}
    /\ last.ret = Raise("ValueError")
    /\ Self._cache = EmptyMap

(***************************************************************************)
(* Write-backs of two threads.                                             *)
(***************************************************************************)
\* No call is in progress.
Quiet == \A w \in Slots : race.proc[w].pc = "idle"

\* The write-backs for key k that have ended, in the order of their ends,
\* and those among them whose os.path.exists found no file.
WriteBacks(k) == SelectSeq(race.finished, LAMBDA x : x.key = k)

Writers(k) == SelectSeq(race.finished, LAMBDA x : x.key = k /\ ~x.sawfile)

\* The keys for which both objects missed and wrote back.  The file of a
\* key is never removed here, so the second of them had missed before the
\* first made the file: the two calls overlap.
RacedKeys ==
    {k \in {race.finished[i].key : i \in DOMAIN race.finished} :
        {WriteBacks(k)[i].w : i \in DOMAIN WriteBacks(k)} = Slots}

\* The content of the file of key k in the folder of the objects.
RacedFile(k) == disk[wrappers[1]._folder].files[k]

(***************************************************************************)
(* C12.  As claimed: when two objects on one folder have both missed on a  *)
(* key in overlapping calls and both have written back, the file of the    *)
(* key holds the value of the object whose write-back ended last.          *)
(***************************************************************************)
C12_LastWriterWins ==
    Quiet =>
        \A k \in RacedKeys :
            RacedFile(k) = PickleDumps(WriteBacks(k)[Len(WriteBacks(k))].val)

(***************************************************************************)
(* C12, amended.  When two objects on one folder have both missed on a key *)
(* in overlapping calls and both have written back, the file of the key    *)
(* holds the value of the last write-back to end among those whose test    *)
(* os.path.exists(cache_path) found no file: a write-back that finds the   *)
(* file writes nothing, so the first writer's value stays unless both      *)
(* tests came before the file was made.                                    *)
(***************************************************************************)
C12_LastUnseenWriterWins ==
    Quiet =>
        \A k \in RacedKeys :
            /\ Writers(k) # <<>>
            /\ RacedFile(k) = PickleDumps(Writers(k)[Len(Writers(k))].val)

\* add(1) = 1 on the first object and add_alt(1) = 0 on the second, both
\* misses: the first writes the file, the second finds it and ends last;
\* the file holds the 1.
C12_Witness ==
    /\ Quiet
    /\ wrappers[1]._fnc = "add" /\ wrappers[2]._fnc = "add_alt"
    /\ Len(race.finished) = 2
    /\ race.finished[1].w = 1 /\ ~race.finished[1].sawfile /\ race.finished[1].val = IntV(1)
    /\ race.finished[2].w = 2 /\ race.finished[2].sawfile /\ race.finished[2].val = IntV(0)
    /\ race.finished[1].key = race.finished[2].key
    /\ RacedFile(race.finished[1].key) = PickleDumps(IntV(1))

\* Both tests came before the file was made: both write, the file holds the
\* 0 of the second, which ended last.
C12_WitnessBothWrite ==
    /\ Quiet
    /\ wrappers[1]._fnc = "add" /\ wrappers[2]._fnc = "add_alt"
    /\ Len(race.finished) = 2
    /\ race.finished[1].w = 1 /\ ~race.finished[1].sawfile /\ race.finished[1].val = IntV(1)
    /\ race.finished[2].w = 2 /\ ~race.finished[2].sawfile /\ race.finished[2].val = IntV(0)
    /\ race.finished[1].key = race.finished[2].key
    /\ RacedFile(race.finished[1].key) = PickleDumps(IntV(0))

====
